---- MODULE Spec2Model ----
(***************************************************************************)
(* Model of "Data visualisation 2/data_wrangling_script.py": the UV and     *)
(* melanoma wrangling pipeline.  A data frame is the sequence of its rows,  *)
(* each a record, in row order.  A float is the exact rational              *)
(* <<numerator, denominator>> in lowest terms, NaN being <<0, 0>>.  Text    *)
(* read from a file (a header, a cell) is a sequence of characters.         *)
(* Spec is main(); SpecReduce, SpecCols, SpecParse, SpecClim, SpecSumm and  *)
(* SpecJoin run one stage of the pipeline on enumerated arguments.          *)
(***************************************************************************)
EXTENDS Integers, Sequences, FiniteSets, TLC

VARIABLES
    input,      \* argument of the helper under study (a data frame or a raw table)
    output,     \* its return value
    stage,      \* position of the helper run: "start" | "done"
    pc,         \* position of main()
    listing,    \* CKAN answer per city: the years of the "City-YYYY.csv" resources
    city_i,     \* index of the city the loop of main() is at
    resources,  \* resources of the current city still to download
    fetched,    \* the tables downloaded so far, in order
    all_rows,   \* main(): all_rows
    warned,     \* cities a WARNING was printed for
    files,      \* the output files on disk: name -> table, or Unwritten
    workbook,   \* the AIHW workbook on disk: [exists, sheet]
    err         \* the exception that ended the run, or "none"

vars == <<input, output, stage, pc, listing, city_i, resources, fetched,
          all_rows, warned, files, workbook, err>>

mainVars == <<pc, listing, city_i, resources, fetched, all_rows, warned,
              files, workbook, err>>

helperVars == <<input, output, stage>>

\* a missing float (numpy NaN); floats are <<numerator, denominator>>
NaN == <<0, 0>>
\* a missing timestamp (pandas NaT); timestamps are <<year, month, day, hour, minute>>
NaT == <<0, 0, 0, 0, 0>>
\* a missing value of an object column (state_code of an unmapped name)
NoCode == "nan"
\* Python None for a column name; column names are sequences of characters
NoCol == <<>>

-----------------------------------------------------------------------------
(* Generic helpers *)

RECURSIVE GCD(_, _)
GCD(a, b) == IF b = 0 THEN a ELSE GCD(b, a % b)

Abs(n) == IF n < 0 THEN -n ELSE n

\* the float n/d
Rat(n, d) ==
    LET g == GCD(Abs(n), Abs(d))
        s == IF d < 0 THEN -1 ELSE 1
    IN  IF n = 0 THEN <<0, 1>> ELSE <<s * (n \div g), s * (d \div g)>>

RatAdd(p, q) == Rat(p[1] * q[2] + q[1] * p[2], p[2] * q[2])
RatDivInt(p, k) == Rat(p[1], p[2] * k)
\* float comparison: FALSE when either side is NaN (denominator 0)
RatLE(p, q) == p[2] # 0 /\ q[2] # 0 /\ p[1] * q[2] <= q[1] * p[2]
RatLT(p, q) == p[2] # 0 /\ q[2] # 0 /\ p[1] * q[2] < q[1] * p[2]

Range(s) == {s[i] : i \in 1..Len(s)}

RECURSIVE RatSum(_)
RatSum(s) == IF s = <<>> THEN <<0, 1>> ELSE RatAdd(s[1], RatSum(Tail(s)))

\* Series.mean() of a series without missing values
RatMean(s) == RatDivInt(RatSum(s), Len(s))

\* Series.max() of a non-empty series without missing values
RatMax(s) == CHOOSE v \in Range(s) : \A w \in Range(s) : RatLE(w, v)

RECURSIVE SelectRows(_, _)
\* the rows of df at the positions where keep (a sequence of booleans) is TRUE
SelectRows(df, keep) ==
    IF df = <<>> THEN <<>>
    ELSE (IF keep[1] THEN <<df[1]>> ELSE <<>>) \o SelectRows(Tail(df), Tail(keep))

RECURSIVE SortInts(_)
\* the integers of S in ascending order
SortInts(S) ==
    IF S = {} THEN <<>>
    ELSE LET m == CHOOSE x \in S : \A y \in S : x <= y
         IN  <<m>> \o SortInts(S \ {m})

RECURSIVE Perms(_)
\* all orderings of the rows of s
Perms(s) ==
    IF s = <<>> THEN {<<>>}
    ELSE UNION {{<<s[i]>> \o t :
                    t \in Perms(SubSeq(s, 1, i - 1) \o SubSeq(s, i + 1, Len(s)))} :
                i \in 1..Len(s)}

-----------------------------------------------------------------------------
(* Temporal reducer: monthly_mean_of_daily_max *)

\* a datetime.date is <<year, month, day>>; its sort key
DateKey(d) == d[1] * 10000 + d[2] * 100 + d[3]
KeyDate(k) == <<k \div 10000, (k \div 100) % 100, k % 100>>
YearMonthKey(y, m) == y * 100 + m

\* daily_max with the last reading of each date in place of the largest
daily_max_last(df) ==
    LET keys == SortInts({DateKey(df[i].date) : i \in 1..Len(df)})
    IN  [k \in 1..Len(keys) |->
            [date |-> KeyDate(keys[k]),
             uv   |-> df[CHOOSE i \in 1..Len(df) :
                            /\ DateKey(df[i].date) = keys[k]
                            /\ \A j \in (i + 1)..Len(df) : DateKey(df[j].date) # keys[k]].uv]]

\* df.groupby("date", as_index=False)["uv"].max(): one row per date, sorted by date
daily_max(df) ==
    LET keys == SortInts({DateKey(df[i].date) : i \in 1..Len(df)})
    IN  [k \in 1..Len(keys) |->
            [date |-> KeyDate(keys[k]),
             uv   |-> RatMax(SelectRows([i \in 1..Len(df) |-> df[i].uv],
                                        [i \in 1..Len(df) |-> DateKey(df[i].date) = keys[k]]))]]

\* daily.groupby(["year","month"], as_index=False)["uv"].mean(), sorted by (year, month)
monthly_mean(daily) ==
    LET keys == SortInts({YearMonthKey(daily[i].date[1], daily[i].date[2]) : i \in 1..Len(daily)})
    IN  [k \in 1..Len(keys) |->
            [year  |-> keys[k] \div 100,
             month |-> keys[k] % 100,
             mean_daily_max_uvi |->
                 RatMean(SelectRows([i \in 1..Len(daily) |-> daily[i].uv],
                                    [i \in 1..Len(daily) |->
                                        YearMonthKey(daily[i].date[1], daily[i].date[2]) = keys[k]]))]]

monthly_mean_of_daily_max(df) == monthly_mean(daily_max(df))

-----------------------------------------------------------------------------
(* Source reader: parse_uv_csv.  A raw table is [columns, rows]: the header  *)
(* names and the rows of text cells, every text a sequence of characters.    *)

UpperToLower == [A |-> "a", B |-> "b", C |-> "c", D |-> "d", E |-> "e", F |-> "f", G |-> "g", H |-> "h", I |-> "i", J |-> "j", K |-> "k", L |-> "l", M |-> "m", N |-> "n", O |-> "o", P |-> "p", Q |-> "q", R |-> "r", S |-> "s", T |-> "t", U |-> "u", V |-> "v", W |-> "w", X |-> "x", Y |-> "y", Z |-> "z"]

AlnumChars == {"a", "b", "c", "d", "e", "f", "g", "h", "i", "j", "k", "l", "m", "n", "o", "p", "q", "r", "s", "t", "u", "v", "w", "x", "y", "z", "0", "1", "2", "3", "4", "5", "6", "7", "8", "9"}

DigitVal == [c \in {"0", "1", "2", "3", "4", "5", "6", "7", "8", "9"} |->
                CASE c = "0" -> 0 [] c = "1" -> 1 [] c = "2" -> 2 [] c = "3" -> 3
                  [] c = "4" -> 4 [] c = "5" -> 5 [] c = "6" -> 6 [] c = "7" -> 7
                  [] c = "8" -> 8 [] c = "9" -> 9]

\* str.lower()
Lower(s) == [i \in 1..Len(s) |-> IF s[i] \in DOMAIN UpperToLower THEN UpperToLower[s[i]] ELSE s[i]]

\* norm(s): re.sub(r"[^a-z0-9]+", "", str(s).lower())
norm(s) == LET l == Lower(s) IN SelectRows(l, [i \in 1..Len(l) |-> l[i] \in AlnumChars])

\* str.startswith
StartsWith(n, p) == Len(n) >= Len(p) /\ SubSeq(n, 1, Len(p)) = p

\* the "in" operator on strings
Contains(n, p) == \E i \in 1..(Len(n) - Len(p) + 1) : SubSeq(n, i, i + Len(p) - 1) = p

\* the candidate keys of the UV column, in priority order
UV_KEYS == <<
    <<"u", "v", "i", "n", "d", "e", "x">>,
    <<"u", "v", "_", "i", "n", "d", "e", "x">>,
    <<"u", "v">>,
    <<"u", "v", "i">>,
    <<"u", "v", "1", "m", "i", "n">>,
    <<"u", "v", "i", "n", "d", "e", "x", "1", "m", "i", "n">>,
    <<"u", "v", "i", "n", "d", "e", "x", "m", "i", "n", "u", "t", "e">> >>

\* the candidate keys of the time column, in priority order
TIME_KEYS == <<
    <<"u", "t", "c", "t", "i", "m", "e">>,
    <<"u", "t", "c">>,
    <<"t", "i", "m", "e", "s", "t", "a", "m", "p">>,
    <<"d", "a", "t", "e", "t", "i", "m", "e">>,
    <<"d", "a", "t", "e", "t", "i", "m", "e", "u", "t", "c">>,
    <<"d", "a", "t", "e", "_", "t", "i", "m", "e">>,
    <<"d", "a", "t", "e", "t", "i", "m", "e", "l", "o", "c", "a", "l">>,
    <<"d", "a", "t", "e">>,
    <<"t", "i", "m", "e">>,
    <<"d", "a", "t", "e", "t", "i", "m", "e", "a", "e", "s", "t">>,
    <<"d", "a", "t", "e", "t", "i", "m", "e", "a", "e", "d", "t">>,
    <<"d", "a", "t", "e", "t", "i", "m", "e", "a", "c", "s", "t">>,
    <<"d", "a", "t", "e", "t", "i", "m", "e", "a", "w", "s", "t">>,
    <<"d", "a", "t", "e", "t", "i", "m", "e", "a", "w", "d", "t">>,
    <<"d", "a", "t", "e", "t", "i", "m", "e", "a", "c", "d", "t">> >>

SetMin(S) == CHOOSE x \in S : \A y \in S : x <= y
SetMax(S) == CHOOSE x \in S : \A y \in S : x >= y

\* norm_map: the normalised name of each column, in column order
norm_map(cols) == [i \in 1..Len(cols) |-> norm(cols[i])]

\* inv[n]: the original name of normalised name n (a later column overwrites an earlier one)
inv(cols, n) ==
    LET nm == norm_map(cols)
    IN  cols[SetMax({i \in 1..Len(cols) : nm[i] = n})]

\* first_key looping over the columns instead of over the keys: the key of
\* the first column, in table order, that has one
first_key_by_column(cols, keys) ==
    LET hits == {i \in 1..Len(cols) : norm(cols[i]) \in Range(keys)}
    IN  IF hits = {} THEN 0
        ELSE CHOOSE k \in 1..Len(keys) : keys[k] = norm(cols[SetMin(hits)])

\* the first key of keys that is in inv, as a position of keys; 0 when none is
first_key(cols, keys) ==
    LET names == Range(norm_map(cols))
        hits  == {k \in 1..Len(keys) : keys[k] \in names}
    IN  IF hits = {} THEN 0 ELSE SetMin(hits)

\* the test of the uv_guess comprehension
uv_guess_test(n) == StartsWith(n, <<"u", "v">>)

\* the test of the "maybe" comprehension
time_guess_test(n) == Contains(n, <<"t", "i", "m", "e">>) \/ Contains(n, <<"d", "a", "t", "e">>)

\* uv_col after lines 127-132
find_uv_col(cols) ==
    LET k == first_key(cols, UV_KEYS)
        nm == norm_map(cols)
        uv_guess == {i \in 1..Len(cols) : uv_guess_test(nm[i])}
    IN  IF k # 0 THEN inv(cols, UV_KEYS[k])
        ELSE IF uv_guess # {} THEN cols[SetMin(uv_guess)]
        ELSE NoCol

\* t_col after lines 135-142
find_t_col(cols) ==
    LET k == first_key(cols, TIME_KEYS)
        nm == norm_map(cols)
        maybe == {i \in 1..Len(cols) : time_guess_test(nm[i])}
    IN  IF k # 0 THEN inv(cols, TIME_KEYS[k])
        ELSE IF maybe # {} THEN cols[SetMin(maybe)]
        ELSE NoCol

\* the condition of the raise at line 144
columns_not_located(uv_col, t_col) == uv_col = NoCol \/ t_col = NoCol

IsDigits(s) == s # <<>> /\ \A i \in 1..Len(s) : s[i] \in DOMAIN DigitVal

RECURSIVE DigitsVal(_)
DigitsVal(s) == IF s = <<>> THEN 0
                ELSE DigitsVal(SubSeq(s, 1, Len(s) - 1)) * 10 + DigitVal[s[Len(s)]]

RECURSIVE Pow10(_)
Pow10(n) == IF n = 0 THEN 1 ELSE 10 * Pow10(n - 1)

\* pd.to_numeric(cell, errors="coerce") of one text cell: [-]digits[.digits], else NaN
to_numeric(c) ==
    LET neg  == c # <<>> /\ c[1] = "-"
        body == IF neg THEN Tail(c) ELSE c
        sign == IF neg THEN -1 ELSE 1
        dots == {i \in 1..Len(body) : body[i] = "."}
    IN  IF dots = {}
        THEN IF IsDigits(body) THEN Rat(sign * DigitsVal(body), 1) ELSE NaN
        ELSE LET d  == SetMin(dots)
                 ip == SubSeq(body, 1, d - 1)
                 fp == SubSeq(body, d + 1, Len(body))
             IN  IF Cardinality(dots) = 1 /\ IsDigits(ip) /\ IsDigits(fp)
                 THEN Rat(sign * (DigitsVal(ip) * Pow10(Len(fp)) + DigitsVal(fp)), Pow10(Len(fp)))
                 ELSE NaN

IsLeap(y) == (y % 4 = 0 /\ y % 100 # 0) \/ y % 400 = 0

DaysIn(y, m) == IF m = 2 THEN (IF IsLeap(y) THEN 29 ELSE 28)
                ELSE IF m \in {4, 6, 9, 11} THEN 30 ELSE 31

\* pd.to_datetime(cell, errors="coerce") of one text cell: "YYYY-MM-DD" or
\* "YYYY-MM-DD HH:MM" naming a calendar instant, else NaT
to_datetime(c) ==
    LET dateOk == Len(c) >= 10 /\ IsDigits(SubSeq(c, 1, 4)) /\ c[5] = "-"
                  /\ IsDigits(SubSeq(c, 6, 7)) /\ c[8] = "-" /\ IsDigits(SubSeq(c, 9, 10))
        timeOk == Len(c) = 16 /\ c[11] = " " /\ IsDigits(SubSeq(c, 12, 13))
                  /\ c[14] = ":" /\ IsDigits(SubSeq(c, 15, 16))
        y  == DigitsVal(SubSeq(c, 1, 4))
        m  == DigitsVal(SubSeq(c, 6, 7))
        d  == DigitsVal(SubSeq(c, 9, 10))
        hh == IF Len(c) = 16 THEN DigitsVal(SubSeq(c, 12, 13)) ELSE 0
        mi == IF Len(c) = 16 THEN DigitsVal(SubSeq(c, 15, 16)) ELSE 0
    IN  IF dateOk /\ (Len(c) = 10 \/ timeOk)
           /\ y >= 1 /\ m \in 1..12 /\ d >= 1 /\ d <= DaysIn(y, m)
           /\ hh \in 0..23 /\ mi \in 0..59
        THEN <<y, m, d, hh, mi>>
        ELSE NaT

\* Timestamp.date()
date_of(ts) == <<ts[1], ts[2], ts[3]>>

\* plausible_uv with the upper bound excluded
plausible_uv_exclusive(uv) == RatLE(<<0, 1>>, uv) /\ RatLT(uv, <<25, 1>>)

\* the "plausible UV" filter of line 150
plausible_uv(uv) == RatLE(<<0, 1>>, uv) /\ RatLE(uv, <<25, 1>>)

\* position of the column named c
col_index(cols, c) == CHOOSE i \in 1..Len(cols) : cols[i] = c

\* lines 147-152: the readings of the rows, given the two columns
readings_of(table, uv_col, t_col) ==
    LET ti  == col_index(table.columns, t_col)
        ui  == col_index(table.columns, uv_col)
        n   == Len(table.rows)
        ts  == [i \in 1..n |-> to_datetime(table.rows[i][ti])]
        uv  == [i \in 1..n |-> to_numeric(table.rows[i][ui])]
        out == [i \in 1..n |-> [__ts |-> ts[i], uv |-> uv[i]]]
        dropna   == SelectRows(out, [i \in 1..n |-> ts[i] # NaT /\ uv[i] # NaN])
        filtered == SelectRows(dropna, [i \in 1..Len(dropna) |-> plausible_uv(dropna[i].uv)])
    IN  [i \in 1..Len(filtered) |-> [date |-> date_of(filtered[i].__ts), uv |-> filtered[i].uv]]

\* parse_uv_csv: [error, df]
parse_uv_csv(table) ==
    LET uv_col == find_uv_col(table.columns)
        t_col  == find_t_col(table.columns)
    IN  IF columns_not_located(uv_col, t_col)
        THEN [error |-> "ValueError", df |-> <<>>]
        ELSE [error |-> "none", df |-> readings_of(table, uv_col, t_col)]

-----------------------------------------------------------------------------
(* Settings *)

YEARS == {2022, 2023, 2024}
RATE_STANDARD == "2001"

\* the keys of PACKAGES, in insertion order (which is also alphabetical order)
PACKAGES == <<"Adelaide", "Brisbane", "Canberra", "Darwin", "Hobart", "Melbourne", "Perth", "Sydney">>

CAP_TO_STATE == [
    Adelaide  |-> <<"SA", "South Australia">>,
    Brisbane  |-> <<"QLD", "Queensland">>,
    Canberra  |-> <<"ACT", "Australian Capital Territory">>,
    Darwin    |-> <<"NT", "Northern Territory">>,
    Hobart    |-> <<"TAS", "Tasmania">>,
    Melbourne |-> <<"VIC", "Victoria">>,
    Perth     |-> <<"WA", "Western Australia">>,
    Sydney    |-> <<"NSW", "New South Wales">> ]

NAME_TO_CODE ==
    ("New South Wales" :> "NSW") @@ ("Victoria" :> "VIC") @@ ("Queensland" :> "QLD") @@
    ("South Australia" :> "SA") @@ ("Western Australia" :> "WA") @@ ("Tasmania" :> "TAS") @@
    ("Northern Territory" :> "NT") @@ ("Australian Capital Territory" :> "ACT")

\* position of a city name in string order
CityOrd(c) == CHOOSE i \in 1..Len(PACKAGES) : PACKAGES[i] = c

\* state codes in string order; a missing code sorts last
CodeOrder == <<"ACT", "NSW", "NT", "QLD", "SA", "TAS", "VIC", "WA", NoCode>>
CodeOrd(c) == CHOOSE i \in 1..Len(CodeOrder) : CodeOrder[i] = c

RECURSIVE ConcatAll(_)
ConcatAll(ss) == IF ss = <<>> THEN <<>> ELSE ss[1] \o ConcatAll(Tail(ss))

\* df.sort_values(...) with the integer key[i] standing for the sort columns of
\* row i: ascending, rows of equal key in their input order
sort_values(df, key) ==
    LET ks == SortInts(Range(key))
    IN  ConcatAll([k \in 1..Len(ks) |-> SelectRows(df, [i \in 1..Len(df) |-> key[i] = ks[k]])])

-----------------------------------------------------------------------------
(* Climatology aggregator: lines 241-271 of main() *)

\* lines 241-243: pd.concat(all_rows) with the city column, sorted by city, year, month
uv_monthly_of(rows) ==
    LET cat == ConcatAll([a \in 1..Len(rows) |->
                   [i \in 1..Len(rows[a].df) |->
                       [city  |-> rows[a].city,
                        year  |-> rows[a].df[i].year,
                        month |-> rows[a].df[i].month,
                        mean_daily_max_uvi |-> rows[a].df[i].mean_daily_max_uvi]]])
    IN  sort_values(cat, [i \in 1..Len(cat) |->
                             CityOrd(cat[i].city) * 1000000 + cat[i].year * 100 + cat[i].month])

\* lines 248-251: groupby(["city","month"]).mean(), sorted by (city, month)
clim_of(uv_monthly) ==
    LET n    == Len(uv_monthly)
        key  == [i \in 1..n |-> CityOrd(uv_monthly[i].city) * 100 + uv_monthly[i].month]
        keys == SortInts(Range(key))
    IN  [k \in 1..Len(keys) |->
            [city  |-> PACKAGES[keys[k] \div 100],
             month |-> keys[k] % 100,
             mean_daily_max_uvi_clim |->
                 RatMean(SelectRows([i \in 1..n |-> uv_monthly[i].mean_daily_max_uvi],
                                    [i \in 1..n |-> key[i] = keys[k]]))]]

\* the cities of clim, in group order
clim_cities(clim) ==
    LET ords == SortInts({CityOrd(clim[i].city) : i \in 1..Len(clim)})
    IN  [k \in 1..Len(ords) |-> PACKAGES[ords[k]]]

\* lines 256-258: groupby("city").mean() of the climatology
annual_of(clim) ==
    LET cs == clim_cities(clim)
    IN  [k \in 1..Len(cs) |->
            [city |-> cs[k],
             annual_mean_uvi |->
                 RatMean(SelectRows([i \in 1..Len(clim) |-> clim[i].mean_daily_max_uvi_clim],
                                    [i \in 1..Len(clim) |-> clim[i].city = cs[k]]))]]

\* idxmax taking the last row holding the maximum
idxmax_last(clim, city) ==
    LET rows == {i \in 1..Len(clim) : clim[i].city = city}
        top  == {i \in rows : \A j \in rows :
                    RatLE(clim[j].mean_daily_max_uvi_clim, clim[i].mean_daily_max_uvi_clim)}
    IN  SetMax(top)

\* line 259: groupby("city")[...].idxmax() for one city: the index label of the
\* first row holding the maximum (clim has the index 0..n-1 of its row order)
idxmax(clim, city) ==
    LET rows == {i \in 1..Len(clim) : clim[i].city = city}
        top  == {i \in rows : \A j \in rows :
                    RatLE(clim[j].mean_daily_max_uvi_clim, clim[i].mean_daily_max_uvi_clim)}
    IN  SetMin(top)

\* lines 260-262: clim.loc[idx] renamed
peak_of(clim) ==
    LET cs == clim_cities(clim)
    IN  [k \in 1..Len(cs) |->
            [city       |-> cs[k],
             peak_month |-> clim[idxmax(clim, cs[k])].month,
             peak_uvi   |-> clim[idxmax(clim, cs[k])].mean_daily_max_uvi_clim]]

\* the key of sort_values("annual_mean_uvi", ascending=False): the rank of the
\* value among the distinct values, largest first
DescRank(vals, v) == Cardinality({w \in Range(vals) : RatLT(v, w)})

\* pandas merge, how="inner": for every left row in order, the right rows of
\* the same key in order
RECURSIVE merge_inner(_, _, _, _)
merge_inner(left, right, on_left, on_right) ==
    IF left = <<>> THEN <<>>
    ELSE LET hits == SelectRows(right, [j \in 1..Len(right) |-> on_right[j] = on_left[1]])
         IN  [j \in 1..Len(hits) |-> [l |-> left[1], r |-> hits[j]]]
             \o merge_inner(Tail(left), right, Tail(on_left), on_right)

\* lines 264-269: annual.merge(peak, on="city") with the state columns, sorted
\* by annual_mean_uvi descending
uv_state_of(clim) ==
    LET annual == annual_of(clim)
        peak   == peak_of(clim)
        joined == merge_inner(annual, peak,
                              [i \in 1..Len(annual) |-> annual[i].city],
                              [i \in 1..Len(peak) |-> peak[i].city])
        tab == [i \in 1..Len(joined) |->
                   [state_code |-> CAP_TO_STATE[joined[i].l.city][1],
                    state_name |-> CAP_TO_STATE[joined[i].l.city][2],
                    capital    |-> joined[i].l.city,
                    annual_mean_uvi |-> joined[i].l.annual_mean_uvi,
                    peak_month |-> joined[i].r.peak_month,
                    peak_uvi   |-> joined[i].r.peak_uvi]]
        vals == [i \in 1..Len(tab) |-> tab[i].annual_mean_uvi]
    IN  sort_values(tab, [i \in 1..Len(tab) |-> DescRank(vals, vals[i])])

-----------------------------------------------------------------------------
(* Statistics table filter and five-period summarizer: read_book7_filtered.  *)
(* A sheet is [columns, rows]: columns holds the headers of the rate columns *)
(* (each the set of phrases its text contains), a row holds the cells Data   *)
(* type, Cancer group/site, Sex, Year, State or Territory, Count and rates   *)
(* (one cell per rate column).                                               *)

\* lines 183-186: the rate columns for the standard, in column order
rate_cols(columns, rate_standard) ==
    LET std == IF rate_standard = "2025" THEN "2025" ELSE "2001"
    IN  SortInts({c \in 1..Len(columns) :
                     "Age-standardised rate" \in columns[c] /\ std \in columns[c]})

\* lines 192-201: the row filter
keep_row(row) ==
    /\ row.Data_type = "Incidence"
    /\ row.Cancer_site = "Melanoma of the skin"
    /\ row.Sex = "Persons"
    /\ RatLE(<<2017, 1>>, to_numeric(row.Year)) /\ RatLE(to_numeric(row.Year), <<2021, 1>>)
    /\ row.State # "Australia"

\* line 210: Series.map(NAME_TO_CODE): a missing value for an unmapped name
map_name_to_code(name) == IF name \in DOMAIN NAME_TO_CODE THEN NAME_TO_CODE[name] ELSE NoCode

\* lines 204-211: yearly
yearly_of(sheet, rate_col) ==
    LET sub == SelectRows(sheet.rows, [i \in 1..Len(sheet.rows) |-> keep_row(sheet.rows[i])])
        tab == [i \in 1..Len(sub) |->
                   [state_code   |-> map_name_to_code(sub[i].State),
                    state_name   |-> sub[i].State,
                    year         |-> to_numeric(sub[i].Year)[1],
                    asr_per_100k |-> to_numeric(sub[i].rates[rate_col]),
                    count        |-> to_numeric(sub[i].Count)]]
    IN  sort_values(tab, [i \in 1..Len(tab) |-> CodeOrd(tab[i].state_code) * 10000 + tab[i].year])

\* the values of a series that are not missing
NotNa(s) == SelectRows(s, [i \in 1..Len(s) |-> s[i] # NaN])

\* mean over all rows of the group, missing ones included in the divisor
mean_over_all_rows(s) == IF NotNa(s) = <<>> THEN NaN ELSE RatDivInt(RatSum(NotNa(s)), Len(s))

\* agg "mean": the mean of the values that are not missing, NaN when there are none
mean_skipna(s) == IF NotNa(s) = <<>> THEN NaN ELSE RatMean(NotNa(s))

\* agg "sum": the sum of the values that are not missing
sum_skipna(s) == RatSum(NotNa(s))

\* the group keys of groupby(["state_code","state_name"]): the distinct pairs
\* without a missing component, in key order
group_keys(yearly) ==
    LET ords == SortInts({CodeOrd(yearly[i].state_code) :
                            i \in {j \in 1..Len(yearly) : yearly[j].state_code # NoCode}})
    IN  [k \in 1..Len(ords) |->
            LET i == SetMin({j \in 1..Len(yearly) : yearly[j].state_code = CodeOrder[ords[k]]})
            IN  <<yearly[i].state_code, yearly[i].state_name>>]

\* lines 213-215: mean
mean_of(yearly) ==
    LET gk == group_keys(yearly)
        n  == Len(yearly)
    IN  [k \in 1..Len(gk) |->
            LET member == [i \in 1..n |-> yearly[i].state_code = gk[k][1]
                                          /\ yearly[i].state_name = gk[k][2]]
            IN  [state_code |-> gk[k][1],
                 state_name |-> gk[k][2],
                 asr_2017_2021_mean |->
                     mean_skipna(SelectRows([i \in 1..n |-> yearly[i].asr_per_100k], member)),
                 count_sum |->
                     sum_skipna(SelectRows([i \in 1..n |-> yearly[i].count], member))]]

\* read_book7_filtered: [error, yearly, mean]
read_book7_filtered(sheet, rate_standard) ==
    LET rate_col == rate_cols(sheet.columns, rate_standard)
    IN  IF rate_col = <<>>
        THEN [error |-> "RuntimeError: no rate column", yearly |-> <<>>, mean |-> <<>>]
        ELSE [error  |-> "none",
              yearly |-> yearly_of(sheet, rate_col[1]),
              mean   |-> mean_of(yearly_of(sheet, rate_col[1]))]

-----------------------------------------------------------------------------
(* Join stage: lines 295-297 of main() *)

\* uv_state.merge(..., how="left"): a left row without a match is kept, with
\* missing statistics
RECURSIVE scatter_left_join(_, _)
scatter_left_join(uv_state, mean) ==
    IF uv_state = <<>> THEN <<>>
    ELSE LET hits == SelectRows(mean, [j \in 1..Len(mean) |->
                                          mean[j].state_code = uv_state[1].state_code])
             rows == IF hits = <<>>
                     THEN <<[asr_2017_2021_mean |-> NaN, count_sum |-> NaN]>>
                     ELSE hits
         IN  [j \in 1..Len(rows) |->
                 [state_code |-> uv_state[1].state_code,
                  state_name |-> uv_state[1].state_name,
                  annual_mean_uvi |-> uv_state[1].annual_mean_uvi,
                  asr_2017_2021_mean |-> rows[j].asr_2017_2021_mean,
                  count_sum |-> rows[j].count_sum]]
             \o scatter_left_join(Tail(uv_state), mean)

\* uv_state.merge(mean[["state_code","asr_2017_2021_mean","count_sum"]],
\*                on="state_code", how="inner") and the column selection
scatter_of(uv_state, mean) ==
    LET joined == merge_inner(uv_state, mean,
                              [i \in 1..Len(uv_state) |-> uv_state[i].state_code],
                              [j \in 1..Len(mean) |-> mean[j].state_code])
    IN  [k \in 1..Len(joined) |->
            [state_code |-> joined[k].l.state_code,
             state_name |-> joined[k].l.state_name,
             annual_mean_uvi |-> joined[k].l.annual_mean_uvi,
             asr_2017_2021_mean |-> joined[k].r.asr_2017_2021_mean,
             count_sum |-> joined[k].r.count_sum]]

-----------------------------------------------------------------------------
(* Runs of one helper on enumerated arguments *)

\* main() is not running
MainIdle ==
    /\ pc = "idle" /\ listing = <<>> /\ city_i = 0 /\ resources = <<>>
    /\ fetched = <<>> /\ all_rows = <<>> /\ warned = {} /\ files = <<>>
    /\ workbook = <<>> /\ err = "none"

RECURSIVE SeqsUpTo(_, _)
\* the sequences over S of length at most n
SeqsUpTo(S, n) ==
    IF n = 0 THEN {<<>>}
    ELSE LET shorter == SeqsUpTo(S, n - 1)
         IN  shorter \cup {Append(t, x) : t \in {u \in shorter : Len(u) = n - 1}, x \in S}

MaxReadings == 3
ReadingDates == {<<2022, 1, 1>>, <<2022, 1, 2>>, <<2022, 2, 1>>, <<2023, 1, 1>>}
ReadingValues == {<<1, 1>>, <<3, 1>>, <<5, 1>>}
ReadingSet == [date : ReadingDates, uv : ReadingValues]

InitReduce ==
    /\ input \in SeqsUpTo(ReadingSet, MaxReadings)
    /\ output = <<>>
    /\ stage = "start"
    /\ MainIdle

\* one call monthly_mean_of_daily_max(df); daily is its local data frame
Reduce ==
    /\ stage = "start"
    /\ output' = [daily |-> daily_max(input), monthly |-> monthly_mean_of_daily_max(input)]
    /\ stage' = "done"
    /\ UNCHANGED <<input, mainVars>>

NextReduce == Reduce

SpecReduce == InitReduce /\ [][NextReduce]_vars

\* the readings of df taken on date d
UvOn(df, d) == {df[i].uv : i \in {j \in 1..Len(df) : df[j].date = d}}

\* the largest of a non-empty set of floats
LargestOf(S) == CHOOSE v \in S : \A w \in S : RatLE(w, v)

RECURSIVE SumOfDailyMax(_, _)
\* the sum over the dates D of the largest reading of each date
SumOfDailyMax(df, D) ==
    IF D = {} THEN <<0, 1>>
    ELSE LET d == CHOOSE x \in D : TRUE
         IN  RatAdd(LargestOf(UvOn(df, d)), SumOfDailyMax(df, D \ {d}))

\* C1: monthly_mean_of_daily_max yields exactly one DailyMax per distinct date,
\* the maximum of exactly the readings of that date, then exactly one
\* MonthlyMean per distinct (year, month) of those dates, the mean of the
\* DailyMax values of that month; every permutation of the input yields the
\* same output.
C1_DailyMaxMonthlyMean ==
    stage = "done" =>
        LET dates  == {input[i].date : i \in 1..Len(input)}
            months == {<<d[1], d[2]>> : d \in dates}
            daily   == output.daily
            monthly == output.monthly
        IN  /\ Len(daily) = Cardinality(dates)
            /\ \A d \in dates :
                  \E k \in 1..Len(daily) :
                      daily[k].date = d /\ daily[k].uv = LargestOf(UvOn(input, d))
            /\ Len(monthly) = Cardinality(months)
            /\ \A ym \in months :
                  LET D == {d \in dates : <<d[1], d[2]>> = ym}
                  IN  \E k \in 1..Len(monthly) :
                          /\ monthly[k].year = ym[1] /\ monthly[k].month = ym[2]
                          /\ monthly[k].mean_daily_max_uvi =
                                 RatDivInt(SumOfDailyMax(input, D), Cardinality(D))
            /\ \A p \in Perms(input) :
                  /\ daily_max(p) = daily
                  /\ monthly_mean_of_daily_max(p) = monthly

\* the scenario [(d1,3),(d1,5),(d2,1)] of one month was reduced to DailyMax 5
\* and 1 and MonthlyMean 3
C1_Witness ==
    /\ stage = "done"
    /\ input = << [date |-> <<2022, 1, 1>>, uv |-> <<3, 1>>],
                  [date |-> <<2022, 1, 1>>, uv |-> <<5, 1>>],
                  [date |-> <<2022, 1, 2>>, uv |-> <<1, 1>>] >>
    /\ output.daily = << [date |-> <<2022, 1, 1>>, uv |-> <<5, 1>>],
                         [date |-> <<2022, 1, 2>>, uv |-> <<1, 1>>] >>
    /\ output.monthly = << [year |-> 2022, month |-> 1, mean_daily_max_uvi |-> <<3, 1>>] >>

-----------------------------------------------------------------------------
(* parse_uv_csv on enumerated tables *)

MaxCols == 3
HeaderSet == {
    <<"U", "V", "_", "I", "n", "d", "e", "x">>,
    <<"U", "V", "-", "I", "n", "d", "e", "x">>,
    <<"U", "V", "I">>,
    <<"U", "V", "B">>,
    <<"m", "a", "x", "U", "V">>,
    <<"T", "i", "m", "e">>,
    <<"o", "b", "s", "_", "d", "a", "t", "e">>,
    <<"T", "i", "m", "e", "s", "t", "a", "m", "p">>,
    <<"s", "i", "t", "e">> }

\* pandas keeps the column names of a data frame read from CSV distinct
DistinctSeqs(S, n) == {t \in SeqsUpTo(S, n) : \A i, j \in 1..Len(t) : i # j => t[i] # t[j]}

InitCols ==
    /\ input \in [columns : DistinctSeqs(HeaderSet, MaxCols), rows : {<<>>}]
    /\ output = <<>>
    /\ stage = "start"
    /\ MainIdle

MaxRows == 2
TsCells == {
    <<"2", "0", "2", "2", "-", "0", "1", "-", "3", "1", " ", "2", "3", ":", "5", "9">>,
    <<"2", "0", "2", "2", "-", "0", "2", "-", "0", "1">>,
    <<"2", "0", "2", "2", "-", "0", "2", "-", "3", "0">>,
    <<>> }
UvCells == {
    <<"0">>,
    <<"2", "5">>,
    <<"2", "5", ".", "5">>,
    <<"-", "1">>,
    <<"2", ".", "5">>,
    <<"x">>,
    <<>> }
ParseColumns == <<<<"D", "a", "t", "e", "-", "T", "i", "m", "e">>, <<"U", "V", "_", "I", "n", "d", "e", "x">>>>

InitParse ==
    /\ input \in [columns : {ParseColumns},
                  rows : SeqsUpTo({<<t, u>> : t \in TsCells, u \in UvCells}, MaxRows)]
    /\ output = <<>>
    /\ stage = "start"
    /\ MainIdle

\* one call parse_uv_csv(content); uv_col and t_col are its locals
Parse ==
    /\ stage = "start"
    /\ output' = [uv_col |-> find_uv_col(input.columns),
                  t_col  |-> find_t_col(input.columns),
                  result |-> parse_uv_csv(input)]
    /\ stage' = "done"
    /\ UNCHANGED <<input, mainVars>>

NextCols == Parse

SpecCols == InitCols /\ [][NextCols]_vars

NextParse == Parse

SpecParse == InitParse /\ [][NextParse]_vars

ContainsUv(n) == Contains(n, <<"u", "v">>)
StartsWithUv(n) == StartsWith(n, <<"u", "v">>)
ContainsTimeOrDate(n) == Contains(n, <<"t", "i", "m", "e">>) \/ Contains(n, <<"d", "a", "t", "e">>)

\* the keys of the list that some column's normalised name equals
MatchedKeys(cols, keys) ==
    LET names == {norm(cols[i]) : i \in 1..Len(cols)}
    IN  {k \in 1..Len(keys) : keys[k] \in names}

\* the columns whose normalised name passes the fallback test
GuessCols(cols, Test(_)) == {i \in 1..Len(cols) : Test(norm(cols[i]))}

\* chosen is the column the two rules name: a column matching the earliest
\* matched key, else the first column in table order passing the fallback
\* test, else no column
ResolvedBy(cols, chosen, keys, Test(_)) ==
    LET matched == MatchedKeys(cols, keys)
        guess   == GuessCols(cols, Test)
    IN  IF matched # {}
        THEN /\ chosen \in Range(cols)
             /\ \E k \in matched : norm(chosen) = keys[k] /\ \A k2 \in matched : k <= k2
        ELSE IF guess # {}
        THEN \E i \in guess : chosen = cols[i] /\ \A j \in guess : i <= j
        ELSE chosen = NoCol

Unresolvable(cols, keys, Test(_)) == MatchedKeys(cols, keys) = {} /\ GuessCols(cols, Test) = {}

\* with a matched key, every order of the columns resolves to a column of the
\* same normalised name
OrderFree(cols) ==
    LET uvMatched == MatchedKeys(cols, UV_KEYS) # {}
        tMatched  == MatchedKeys(cols, TIME_KEYS) # {}
        uvName    == norm(find_uv_col(cols))
        tName     == norm(find_t_col(cols))
    IN  \A p \in Perms(cols) :
            /\ uvMatched => norm(find_uv_col(p)) = uvName
            /\ tMatched => norm(find_t_col(p)) = tName

\* C8 as stated: the value column is resolved by the candidate list, else by
\* the first column whose normalised name CONTAINS "uv"; the timestamp column
\* by its list, else by the first column containing "time" or "date"; parsing
\* fails only when a column satisfies neither rule.
C8_Original ==
    stage = "done" =>
        /\ ResolvedBy(input.columns, output.uv_col, UV_KEYS, ContainsUv)
        /\ ResolvedBy(input.columns, output.t_col, TIME_KEYS, ContainsTimeOrDate)
        /\ OrderFree(input.columns)
        /\ (output.result.error = "ValueError") <=>
               (\/ Unresolvable(input.columns, UV_KEYS, ContainsUv)
                \/ Unresolvable(input.columns, TIME_KEYS, ContainsTimeOrDate))

\* C8 amended: as C8, with the value fallback being the first column whose
\* normalised name STARTS WITH "uv".
C8_Resolution ==
    stage = "done" =>
        /\ ResolvedBy(input.columns, output.uv_col, UV_KEYS, StartsWithUv)
        /\ ResolvedBy(input.columns, output.t_col, TIME_KEYS, ContainsTimeOrDate)
        /\ OrderFree(input.columns)
        /\ (output.result.error = "ValueError") <=>
               (\/ Unresolvable(input.columns, UV_KEYS, StartsWithUv)
                \/ Unresolvable(input.columns, TIME_KEYS, ContainsTimeOrDate))

\* a table whose columns match two candidate keys in reverse list order, with
\* the value column resolved by the fallback rule, has been resolved
C8_Witness ==
    /\ stage = "done"
    /\ input.columns = <<<<"T", "i", "m", "e">>, <<"U", "V", "B">>, <<"T", "i", "m", "e", "s", "t", "a", "m", "p">>>>
    /\ output.t_col = <<"T", "i", "m", "e", "s", "t", "a", "m", "p">>
    /\ output.uv_col = <<"U", "V", "B">>
    /\ output.result.error = "none"

\* the rows of the table that qualify: timestamp parses, value numeric and in [0, 25]
Qualifying(table) ==
    {i \in 1..Len(table.rows) :
        /\ to_datetime(table.rows[i][1]) # NaT
        /\ to_numeric(table.rows[i][2]) # NaN
        /\ RatLE(<<0, 1>>, to_numeric(table.rows[i][2]))
        /\ RatLE(to_numeric(table.rows[i][2]), <<25, 1>>)}

\* C10: the readings returned by parse_uv_csv are exactly the qualifying rows
\* of the input, in input order, each with the row's own value (within
\* [0, 25], bounds included) and the date of the row's timestamp; the other
\* rows are dropped without an error.
C10_ReadingsAreQualifyingRows ==
    stage = "done" =>
        LET idx == SortInts(Qualifying(input))
            df  == output.result.df
        IN  /\ output.result.error = "none"
            /\ Len(df) = Len(idx)
            /\ \A k \in 1..Len(df) :
                  /\ df[k].uv = to_numeric(input.rows[idx[k]][2])
                  /\ df[k].date = SubSeq(to_datetime(input.rows[idx[k]][1]), 1, 3)
                  /\ RatLE(<<0, 1>>, df[k].uv) /\ RatLE(df[k].uv, <<25, 1>>)

\* a table with a reading of exactly 25 and a row of 25.5 was parsed: the
\* first is kept as 25, the second dropped
C10_Witness ==
    /\ stage = "done"
    /\ input.rows = << <<<<"2", "0", "2", "2", "-", "0", "1", "-", "3", "1", " ", "2", "3", ":", "5", "9">>, <<"2", "5">>>>,
                       <<<<"2", "0", "2", "2", "-", "0", "2", "-", "0", "1">>, <<"2", "5", ".", "5">>>> >>
    /\ output.result.df = << [date |-> <<2022, 1, 31>>, uv |-> <<25, 1>>] >>

-----------------------------------------------------------------------------
(* The climatology aggregator on enumerated monthly tables *)

MaxMonthlyRows == 3
NumClimCities == 2
MonthlyRowSet ==
    {[df |-> <<[year |-> ym[1], month |-> ym[2], mean_daily_max_uvi |-> v]>>, city |-> PACKAGES[c]] :
        c \in 1..NumClimCities, ym \in {<<2022, 1>>, <<2022, 2>>, <<2023, 1>>},
        v \in {<<2, 1>>, <<4, 1>>}}

\* input is all_rows, one monthly row per frame
InitClim ==
    /\ input \in SeqsUpTo(MonthlyRowSet, MaxMonthlyRows)
    /\ output = <<>>
    /\ stage = "start"
    /\ MainIdle

\* lines 241-269 of main() on the given all_rows
Summarise ==
    /\ stage = "start"
    /\ output' = [uv_monthly |-> uv_monthly_of(input),
                  clim       |-> clim_of(uv_monthly_of(input)),
                  uv_state   |-> uv_state_of(clim_of(uv_monthly_of(input)))]
    /\ stage' = "done"
    /\ UNCHANGED <<input, mainVars>>

NextClim == Summarise

SpecClim == InitClim /\ [][NextClim]_vars

\* the climatology rows of a city
ClimRowsOf(clim, city) == {clim[i] : i \in {j \in 1..Len(clim) : clim[j].city = city}}

\* uv_state gives city the peak the claim names: the largest climatology value
\* of the city and the lowest month holding it
PeakIsLowestMaxMonth(clim, uv_state, city) ==
    \E k \in 1..Len(uv_state) :
        /\ uv_state[k].capital = city
        /\ \A k2 \in 1..Len(uv_state) : uv_state[k2].capital = city => k2 = k
        /\ \E r \in ClimRowsOf(clim, city) : r.mean_daily_max_uvi_clim = uv_state[k].peak_uvi
        /\ \A r \in ClimRowsOf(clim, city) :
              RatLE(r.mean_daily_max_uvi_clim, uv_state[k].peak_uvi)
        /\ \E r \in ClimRowsOf(clim, city) :
              r.month = uv_state[k].peak_month /\ r.mean_daily_max_uvi_clim = uv_state[k].peak_uvi
        /\ \A r \in ClimRowsOf(clim, city) :
              r.mean_daily_max_uvi_clim = uv_state[k].peak_uvi => uv_state[k].peak_month <= r.month

\* C2: for every location, peak_month is the lowest month whose Climatology
\* value equals the maximum Climatology value of the location, and peak_uvi is
\* that maximum.
C2_PeakMonth ==
    stage = "done" =>
        \A i \in 1..Len(output.clim) :
            PeakIsLowestMaxMonth(output.clim, output.uv_state, output.clim[i].city)

\* a location whose months 1 and 2 share the maximum climatology value, next
\* to another location, was summarised with peak_month 1
C2_Witness ==
    /\ stage = "done"
    /\ \E k \in 1..Len(output.uv_state) :
          /\ output.uv_state[k].capital = "Brisbane"
          /\ output.uv_state[k].peak_month = 1
          /\ \E r1, r2 \in ClimRowsOf(output.clim, "Brisbane") :
                /\ r1.month = 1 /\ r2.month = 2
                /\ r1.mean_daily_max_uvi_clim = r2.mean_daily_max_uvi_clim
    /\ \E k \in 1..Len(output.uv_state) : output.uv_state[k].capital = "Adelaide"

-----------------------------------------------------------------------------
(* read_book7_filtered on enumerated sheets *)

MaxSheetRows == 2
SheetColumns == << {"Age-standardised rate", "2001"}, {"Age-standardised rate", "2025"} >>
MelanomaRow(state, year, rate, count) ==
    [Data_type |-> "Incidence", Cancer_site |-> "Melanoma of the skin", Sex |-> "Persons",
     Year |-> year, State |-> state, Count |-> count, rates |-> <<rate, <<"9", "9">>>>]
NotPublished == <<"n", ".", "p", ".">>
SheetRowSet ==
    {MelanomaRow(st, y, rc[1], rc[2]) :
        st \in {"Victoria", "Tasmania", "Australia", "Norfolk Island"},
        y \in {<<"2", "0", "2", "1">>, <<"2", "0", "2", "2">>},
        rc \in {<<<<"1", "0">>, <<"5">>>>, <<<<"2", "0">>, <<"1", "5">>>>,
                <<NotPublished, NotPublished>>}}
    \cup {[MelanomaRow("Victoria", <<"2", "0", "2", "1">>, <<"7">>, <<"7">>)
              EXCEPT !.Data_type = "Mortality"],
          [MelanomaRow("Victoria", <<"2", "0", "2", "1">>, <<"8">>, <<"8">>)
              EXCEPT !.Sex = "Males"]}

InitSumm ==
    /\ input \in [columns : {SheetColumns}, rows : SeqsUpTo(SheetRowSet, MaxSheetRows)]
    /\ output = <<>>
    /\ stage = "start"
    /\ MainIdle

\* one call read_book7_filtered(book_path, rate_standard=RATE_STANDARD)
ReadBook7 ==
    /\ stage = "start"
    /\ output' = read_book7_filtered(input, RATE_STANDARD)
    /\ stage' = "done"
    /\ UNCHANGED <<input, mainVars>>

NextSumm == ReadBook7

SpecSumm == InitSumm /\ [][NextSumm]_vars

\* the StatRecords of one (region_code, region_name) pair
StatRecordsOf(yearly, pair) ==
    {i \in 1..Len(yearly) : <<yearly[i].state_code, yearly[i].state_name>> = pair}

RECURSIVE SumOver(_, _)
\* the sum of the values f[i], i in S, that are not missing
SumOver(f, S) ==
    IF S = {} THEN <<0, 1>>
    ELSE LET i == CHOOSE x \in S : TRUE
         IN  IF f[i] = NaN THEN SumOver(f, S \ {i}) ELSE RatAdd(f[i], SumOver(f, S \ {i}))

\* mean carries exactly one RegionSummary for the pair, with the mean of the
\* group's (published) rates and the sum of the group's (published) counts
SummarisedOnce(yearly, mean, pair) ==
    LET G     == StatRecordsOf(yearly, pair)
        rates == [i \in 1..Len(yearly) |-> yearly[i].asr_per_100k]
        cnts  == [i \in 1..Len(yearly) |-> yearly[i].count]
        nr    == Cardinality({i \in G : rates[i] # NaN})
    IN  \E k \in 1..Len(mean) :
            /\ <<mean[k].state_code, mean[k].state_name>> = pair
            /\ \A k2 \in 1..Len(mean) :
                  <<mean[k2].state_code, mean[k2].state_name>> = pair => k2 = k
            /\ mean[k].asr_2017_2021_mean =
                   (IF nr = 0 THEN NaN ELSE RatDivInt(SumOver(rates, G), nr))
            /\ mean[k].count_sum = SumOver(cnts, G)

\* C9 as stated: exactly one RegionSummary for each distinct (region_code,
\* region_name) pair that has a StatRecord, the code of an unmapped name being
\* the missing code, and none for any other pair; rate_mean the mean of the
\* rates and count_sum the sum of the counts of the group.
C9_Original ==
    stage = "done" =>
        LET pairs == {<<output.yearly[i].state_code, output.yearly[i].state_name>> :
                         i \in 1..Len(output.yearly)}
        IN  /\ \A pr \in pairs : SummarisedOnce(output.yearly, output.mean, pr)
            /\ \A k \in 1..Len(output.mean) :
                  <<output.mean[k].state_code, output.mean[k].state_name>> \in pairs

\* C9 amended: exactly one RegionSummary for each distinct (region_code,
\* region_name) pair that has a StatRecord and whose region_code is not
\* missing, and none for any other pair; rate_mean is the mean of the rates of
\* the group that are not missing and count_sum the sum of its counts that are
\* not missing.
C9_Summaries ==
    stage = "done" =>
        LET pairs == {<<output.yearly[i].state_code, output.yearly[i].state_name>> :
                         i \in {j \in 1..Len(output.yearly) :
                                   output.yearly[j].state_code # NoCode}}
        IN  /\ \A pr \in pairs : SummarisedOnce(output.yearly, output.mean, pr)
            /\ \A k \in 1..Len(output.mean) :
                  <<output.mean[k].state_code, output.mean[k].state_name>> \in pairs

\* the VIC scenario: rates 10 and 20 with counts 5 and 15 were summarised to
\* rate_mean 15 and count_sum 20
C9_Witness ==
    /\ stage = "done"
    /\ Len(output.yearly) = 2
    /\ {output.yearly[i].asr_per_100k : i \in 1..2} = {<<10, 1>>, <<20, 1>>}
    /\ output.mean = <<[state_code |-> "VIC", state_name |-> "Victoria",
                        asr_2017_2021_mean |-> <<15, 1>>, count_sum |-> <<20, 1>>]>>

-----------------------------------------------------------------------------
(* The join stage on enumerated tables, tables with a repeated state_code     *)
(* included.  (In main() both tables come out of a groupby and of one-to-one  *)
(* lookup tables, so that no state_code repeats there: UniqueKeysInMain.)     *)

MaxJoinRows == 2
LocationRowSet ==
    {[state_code |-> CAP_TO_STATE[c][1], state_name |-> CAP_TO_STATE[c][2], capital |-> c,
      annual_mean_uvi |-> a, peak_month |-> 1, peak_uvi |-> <<5, 1>>] :
        c \in {"Adelaide", "Brisbane"}, a \in {<<3, 1>>, <<4, 1>>}}
RegionRowSet ==
    {[state_code |-> NAME_TO_CODE[n], state_name |-> n,
      asr_2017_2021_mean |-> r, count_sum |-> <<5, 1>>] :
        n \in {"South Australia", "Victoria"}, r \in {<<10, 1>>, <<20, 1>>}}

InitJoin ==
    /\ input \in [uv_state : SeqsUpTo(LocationRowSet, MaxJoinRows),
                  mean : SeqsUpTo(RegionRowSet, MaxJoinRows)]
    /\ output = <<>>
    /\ stage = "start"
    /\ MainIdle

\* lines 295-299: the merge and the unconditional to_csv
Join ==
    /\ stage = "start"
    /\ output' = [error |-> "none", written |-> TRUE,
                  rows |-> scatter_of(input.uv_state, input.mean)]
    /\ stage' = "done"
    /\ UNCHANGED <<input, mainVars>>

NextJoin == Join

SpecJoin == InitJoin /\ [][NextJoin]_vars

\* some state_code is on more than one row
HasDuplicateKey(rows) ==
    \E i, j \in 1..Len(rows) : i # j /\ rows[i].state_code = rows[j].state_code

-----------------------------------------------------------------------------
(* main() *)

NumCities == 2
\* what CKAN may list for a city: the years of its "City-YYYY.csv" resources
Listings == {{}, {2021}, {2023}, {2022, 2023}}

YearText(y) == CASE y = 2021 -> <<"2", "0", "2", "1">>
                 [] y = 2022 -> <<"2", "0", "2", "2">>
                 [] y = 2023 -> <<"2", "0", "2", "3">>
                 [] y = 2024 -> <<"2", "0", "2", "4">>

\* a year of minute readings whose January and February daily maxima are both 4
FlatTable(y) ==
    [columns |-> <<<<"D", "a", "t", "e", "-", "T", "i", "m", "e">>, <<"U", "V", "_", "I", "n", "d", "e", "x">>>>,
     rows |-> << <<YearText(y) \o <<"-", "0", "1", "-", "1", "0", " ", "1", "2", ":", "0", "0">>, <<"4">>>>,
                 <<YearText(y) \o <<"-", "0", "1", "-", "1", "0", " ", "1", "3", ":", "0", "0">>, <<"3">>>>,
                 <<YearText(y) \o <<"-", "0", "2", "-", "1", "0">>, <<"4">>>> >>]

\* a year of readings peaking in February, with an unusable row, under
\* headers only the fallback rules resolve
PeakTable(y) ==
    [columns |-> <<<<"U", "V", "B">>, <<"o", "b", "s", "_", "d", "a", "t", "e">>>>,
     rows |-> << <<<<"2">>, YearText(y) \o <<"-", "0", "1", "-", "1", "0">>>>,
                 <<<<"8">>, YearText(y) \o <<"-", "0", "2", "-", "1", "0">>>>,
                 <<<<"2", "6">>, YearText(y) \o <<"-", "0", "2", "-", "1", "1">>>> >>]

\* a table without a column the rules take for the UV value
NoUvTable(y) ==
    [columns |-> <<<<"T", "i", "m", "e">>, <<"m", "a", "x", "U", "V">>>>,
     rows |-> << <<YearText(y) \o <<"-", "0", "1", "-", "1", "0">>, <<"5">>>> >>]

\* what the download of the resource of year y may hold
SourceTables(y) == {FlatTable(y), PeakTable(y), NoUvTable(y)}

EmptySheet == [columns |-> <<>>, rows |-> <<>>]

Workbooks == {
    [exists |-> FALSE, sheet |-> EmptySheet],
    [exists |-> TRUE,
     sheet  |-> [columns |-> SheetColumns,
                 rows |-> << MelanomaRow("South Australia", <<"2", "0", "1", "7">>, <<"1", "0">>, <<"5">>),
                             MelanomaRow("South Australia", <<"2", "0", "2", "1">>, <<"2", "0">>, <<"1", "5">>),
                             MelanomaRow("Victoria", <<"2", "0", "1", "9">>, <<"3", "0">>, <<"7">>),
                             MelanomaRow("Australia", <<"2", "0", "1", "9">>, <<"2", "5">>, <<"9", "0">>),
                             MelanomaRow("Norfolk Island", <<"2", "0", "1", "9">>, <<"4", "0">>, <<"1">>) >>]],
    [exists |-> TRUE,
     sheet  |-> [columns |-> SheetColumns,
                 rows |-> << MelanomaRow("Queensland", <<"2", "0", "1", "8">>, <<"5", "0">>, <<"9">>),
                             MelanomaRow("Australian Capital Territory", <<"2", "0", "1", "8">>, <<"3", "5">>, <<"3">>) >>]],
    [exists |-> TRUE,
     sheet  |-> [columns |-> << {"Age-standardised rate", "2025"} >>,
                 rows |-> << [MelanomaRow("Queensland", <<"2", "0", "1", "8">>, <<"5", "0">>, <<"9">>)
                                 EXCEPT !.rates = <<<<"5", "0">>>>] >>]] }

NotWritten == [written |-> FALSE, rows |-> <<>>]
Written(rows) == [written |-> TRUE, rows |-> rows]

Init ==
    /\ input = <<>> /\ output = <<>> /\ stage = "idle"
    /\ pc = "loop"
    /\ listing \in [1..NumCities -> Listings]
    /\ city_i = 1
    /\ resources = <<>>
    /\ fetched = <<>>
    /\ all_rows = <<>>
    /\ warned = {}
    /\ files = [uv_monthly_by_year |-> NotWritten, uv_climatology_selected_years |-> NotWritten,
                uv_state_metric |-> NotWritten, melanoma_rates_state_2017_2021 |-> NotWritten,
                melanoma_rates_state_5yr_mean |-> NotWritten, uv_melanoma_scatter |-> NotWritten]
    /\ workbook \in Workbooks
    /\ err = "none"

\* list_year_resources with the test "y in years" left out
list_all_resources(listed, years) == SortInts(listed)

\* list_year_resources: the resources named "City-YYYY.csv" with YYYY in years,
\* sorted; listed holds the years of the resources so named
list_year_resources(listed, years) == SortInts({y \in listed : y \in years})

\* an exception of parse_uv_csv caught and the table skipped
parse_error_swallowed(r) == FALSE

\* line 232: an exception raised by parse_uv_csv leaves main()
parse_raises(r) == r.error # "none"

\* the test of line 279 always false
workbook_never_missing(wb) == FALSE

\* line 279: not os.path.exists(AIHW_BOOK7_PATH)
workbook_missing(wb) == ~wb.exists

\* lines 224-229: the head of the city loop
ListResources ==
    /\ pc = "loop" /\ city_i <= NumCities
    /\ LET found == list_year_resources(listing[city_i], YEARS)
       IN  IF found = <<>>
           THEN /\ warned' = warned \cup {PACKAGES[city_i]}
                /\ city_i' = city_i + 1
                /\ UNCHANGED <<pc, resources>>
           ELSE /\ resources' = found
                /\ pc' = "download"
                /\ UNCHANGED <<warned, city_i>>
    /\ UNCHANGED <<listing, fetched, all_rows, files, workbook, err, helperVars>>

\* lines 230-235: one pass of the resource loop
Download ==
    /\ pc = "download"
    /\ \E tbl \in SourceTables(resources[1]) :
          LET df_raw == parse_uv_csv(tbl)
          IN  /\ fetched' = Append(fetched, [city |-> PACKAGES[city_i], year |-> resources[1],
                                             table |-> tbl])
              /\ IF parse_raises(df_raw)
                 THEN /\ pc' = "failed"
                      /\ err' = df_raw.error
                      /\ UNCHANGED <<all_rows, resources, city_i>>
                 ELSE /\ all_rows' = Append(all_rows,
                                            [city |-> PACKAGES[city_i],
                                             df   |-> monthly_mean_of_daily_max(df_raw.df)])
                      /\ resources' = Tail(resources)
                      /\ IF Tail(resources) = <<>>
                         THEN pc' = "loop" /\ city_i' = city_i + 1
                         ELSE UNCHANGED <<pc, city_i>>
                      /\ UNCHANGED err
    /\ UNCHANGED <<listing, warned, files, workbook, helperVars>>

\* lines 237-245
ExportMonthly ==
    /\ pc = "loop" /\ city_i > NumCities
    /\ IF all_rows = <<>>
       THEN /\ pc' = "failed"
            /\ err' = "RuntimeError: No UV data downloaded"
            /\ UNCHANGED files
       ELSE /\ files' = [files EXCEPT !.uv_monthly_by_year = Written(uv_monthly_of(all_rows))]
            /\ pc' = "export_clim"
            /\ UNCHANGED err
    /\ UNCHANGED <<listing, city_i, resources, fetched, all_rows, warned, workbook, helperVars>>

\* lines 248-253; the local uv_monthly holds the table written to uv_monthly_by_year
ExportClim ==
    /\ pc = "export_clim"
    /\ files' = [files EXCEPT !.uv_climatology_selected_years =
                                  Written(clim_of(files.uv_monthly_by_year.rows))]
    /\ pc' = "export_state"
    /\ UNCHANGED <<listing, city_i, resources, fetched, all_rows, warned, workbook, err, helperVars>>

\* lines 256-276; the local clim holds the table written to uv_climatology_selected_years
ExportState ==
    /\ pc = "export_state"
    /\ files' = [files EXCEPT !.uv_state_metric =
                                  Written(uv_state_of(files.uv_climatology_selected_years.rows))]
    /\ pc' = "check_workbook"
    /\ UNCHANGED <<listing, city_i, resources, fetched, all_rows, warned, workbook, err, helperVars>>

\* lines 279-281
CheckWorkbook ==
    /\ pc = "check_workbook"
    /\ pc' = IF workbook_missing(workbook) THEN "done" ELSE "melanoma"
    /\ UNCHANGED <<listing, city_i, resources, fetched, all_rows, warned, files, workbook, err, helperVars>>

\* lines 283-292
ExportMelanoma ==
    /\ pc = "melanoma"
    /\ LET r == read_book7_filtered(workbook.sheet, RATE_STANDARD)
       IN  IF r.error # "none"
           THEN pc' = "failed" /\ err' = r.error /\ UNCHANGED files
           ELSE /\ files' = [files EXCEPT !.melanoma_rates_state_2017_2021 = Written(r.yearly),
                                          !.melanoma_rates_state_5yr_mean = Written(r.mean)]
                /\ pc' = "scatter"
                /\ UNCHANGED err
    /\ UNCHANGED <<listing, city_i, resources, fetched, all_rows, warned, workbook, helperVars>>

\* lines 295-301; the locals uv_state and mean hold the tables written before
ExportScatter ==
    /\ pc = "scatter"
    /\ files' = [files EXCEPT !.uv_melanoma_scatter =
                                  Written(scatter_of(files.uv_state_metric.rows,
                                                     files.melanoma_rates_state_5yr_mean.rows))]
    /\ pc' = "done"
    /\ UNCHANGED <<listing, city_i, resources, fetched, all_rows, warned, workbook, err, helperVars>>

Next ==
    \/ ListResources
    \/ Download
    \/ ExportMonthly
    \/ ExportClim
    \/ ExportState
    \/ CheckWorkbook
    \/ ExportMelanoma
    \/ ExportScatter

Spec == Init /\ [][Next]_vars

\* the cities of the rows of a table with a city column
CitiesIn(rows, field) == {rows[i][field] : i \in 1..Len(rows)}

\* the configured locations for which no source table of a selected period is found
Missing == {c \in 1..NumCities : listing[c] \cap YEARS = {}}

UvFiles == {"uv_monthly_by_year", "uv_climatology_selected_years", "uv_state_metric"}
MelanomaFiles == {"melanoma_rates_state_2017_2021", "melanoma_rates_state_5yr_mean",
                  "uv_melanoma_scatter"}

\* a location found missing is warned about, downloads nothing and is in no UV output
MissingOnlyWarned ==
    \A c \in Missing :
        /\ c < city_i => PACKAGES[c] \in warned
        /\ \A i \in 1..Len(fetched) : fetched[i].city # PACKAGES[c]
        /\ \A i \in 1..Len(all_rows) : all_rows[i].city # PACKAGES[c]
        /\ PACKAGES[c] \notin CitiesIn(files.uv_monthly_by_year.rows, "city")
        /\ PACKAGES[c] \notin CitiesIn(files.uv_climatology_selected_years.rows, "city")
        /\ PACKAGES[c] \notin CitiesIn(files.uv_state_metric.rows, "capital")

\* the run goes on for the locations that have source tables: once the loop is
\* over without an error each of them has its monthly frames in all_rows
OthersProcessed ==
    (city_i > NumCities /\ err = "none") =>
        \A c \in (1..NumCities) \ Missing :
            \A y \in listing[c] \cap YEARS :
                \E i \in 1..Len(fetched) :
                    fetched[i].city = PACKAGES[c] /\ fetched[i].year = y
                    /\ all_rows[i].city = PACKAGES[c]

\* C5 as stated: for every subset of the locations without a source table of a
\* selected period, the subset of all locations included, the run does not
\* fail; each such location is only warned about, is absent from the monthly,
\* climatology and LocationSummary outputs, and the run continues for the
\* other locations.
C5_Original ==
    /\ MissingOnlyWarned
    /\ OthersProcessed
    /\ (Missing # {} => err # "RuntimeError: No UV data downloaded")

\* C5 amended: as C5 for every subset that leaves at least one location with a
\* source table of a selected period; when no location has one, the run fails
\* with "No UV data downloaded" and writes no output.
C5_MissingLocations ==
    /\ MissingOnlyWarned
    /\ OthersProcessed
    /\ (Missing # 1..NumCities => err # "RuntimeError: No UV data downloaded")
    /\ (Missing = 1..NumCities /\ pc \notin {"loop", "download"} =>
            /\ pc = "failed" /\ err = "RuntimeError: No UV data downloaded"
            /\ \A f \in DOMAIN files : ~files[f].written)

\* a run with one location missing and one present has written the three UV
\* outputs, the missing location warned about
C5_Witness ==
    /\ Missing = {1}
    /\ "Adelaide" \in warned
    /\ pc = "done"
    /\ \A f \in UvFiles : files[f].written
    /\ "Brisbane" \in CitiesIn(files.uv_state_metric.rows, "capital")

\* C6: the three UV outputs are written before the workbook is looked for;
\* when the workbook is missing the run completes without an error and writes
\* none of the melanoma yearly, five-period summary and joined outputs.
C6_MissingWorkbook ==
    /\ pc \in {"check_workbook", "melanoma", "scatter", "done"} =>
           \A f \in UvFiles : files[f].written
    /\ \A f \in MelanomaFiles : files[f].written =>
           \A g \in UvFiles : files[g].written
    /\ ~workbook.exists =>
           /\ pc \notin {"melanoma", "scatter"}
           /\ \A f \in MelanomaFiles : ~files[f].written
           /\ (\A f \in UvFiles : files[f].written) => pc \in {"check_workbook", "done"} /\ err = "none"

\* a run without the workbook is over, the UV outputs written
C6_Witness ==
    /\ ~workbook.exists
    /\ pc = "done"
    /\ err = "none"
    /\ \A f \in UvFiles : files[f].written
    /\ \A f \in MelanomaFiles : ~files[f].written

\* neither rule locates the value column, or neither locates the timestamp column
NotLocatable(table) ==
    \/ Unresolvable(table.columns, UV_KEYS, StartsWithUv)
    \/ Unresolvable(table.columns, TIME_KEYS, ContainsTimeOrDate)

\* C7: a source table whose value or timestamp column cannot be located ends
\* the whole run with the error of parse_uv_csv: nothing of the table is
\* aggregated, nothing is downloaded after it and no output is written,
\* however many tables were parsed before it.
C7_SchemaErrorAborts ==
    \A i \in 1..Len(fetched) :
        NotLocatable(fetched[i].table) =>
            /\ pc = "failed" /\ err = "ValueError"
            /\ i = Len(fetched)
            /\ Len(all_rows) = i - 1
            /\ \A f \in DOMAIN files : ~files[f].written

\* the third table downloaded, after two parsed ones, has no value column
C7_Witness ==
    /\ Len(fetched) = 3
    /\ NotLocatable(fetched[3].table)
    /\ Len(all_rows) = 2
    /\ pc = "failed"

\* the region codes of a table
CodesIn(rows) == {rows[i].state_code : i \in 1..Len(rows)}

\* C3: the joined output has a row for a region_code if and only if the code
\* is in both the LocationSummary and the RegionSummary table.
C3_InnerJoin ==
    files.uv_melanoma_scatter.written =>
        /\ CodesIn(files.uv_melanoma_scatter.rows) =
               CodesIn(files.uv_state_metric.rows)
                   \cap CodesIn(files.melanoma_rates_state_5yr_mean.rows)
        /\ \A c \in CodesIn(files.uv_melanoma_scatter.rows) :
              Cardinality({k \in 1..Len(files.uv_melanoma_scatter.rows) :
                              files.uv_melanoma_scatter.rows[k].state_code = c}) = 1

\* a join was written that leaves out a location without RegionSummary (QLD)
\* and a RegionSummary without location (VIC), keeping SA
C3_Witness ==
    /\ files.uv_melanoma_scatter.written
    /\ CodesIn(files.uv_state_metric.rows) = {"SA", "QLD"}
    /\ CodesIn(files.melanoma_rates_state_5yr_mean.rows) = {"SA", "VIC"}
    /\ CodesIn(files.uv_melanoma_scatter.rows) = {"SA"}

\* in main() no state_code repeats in the table of LocationSummary or of
\* RegionSummary rows
UniqueKeysInMain ==
    /\ ~HasDuplicateKey(files.uv_state_metric.rows)
    /\ ~HasDuplicateKey(files.melanoma_rates_state_5yr_mean.rows)

====
